---- MODULE Spec2Model ----
(***************************************************************************)
(* hft-flash: the two order schedulers of the repository.                  *)
(*                                                                         *)
(*   app_multiuser_highres.js  run / runUser: one session per account of   *)
(*                             users.json, local clock, shared log         *)
(*   app.js                    runApp: one account from the environment,   *)
(*                             remote market time, SIGINT handler          *)
(*                                                                         *)
(* One action is one JavaScript job: the code that runs from a callback's  *)
(* or continuation's start to its next await, without interleaving.        *)
(* Time is in integer milliseconds; a timer fires at or after its due      *)
(* time; a network call answers at any later job.                          *)
(***************************************************************************)
EXTENDS Integers, Sequences, FiniteSets, Bags, TLC

VARIABLES
    program,          \* which script node was started with
    proc,             \* "running", or how the process ended
    now,              \* the clock, ms
    users,            \* app_multiuser_highres.js: the parsed users.json
    runPc,            \* run(): "start", "awaiting" Promise.all, "done" after finally
    pc,               \* runUser: where each session is
    token,            \* runUser: const token
    startTime,        \* runUser: const startTime (line 105), ms since midnight
    stopTime,         \* runUser: const stopTime (line 106)
    isTradingActive,  \* runUser: let isTradingActive
    waitTimer,        \* runUser: due time of the wait loop's setTimeout
    tradingInterval,  \* runUser: due time of the setInterval
    stopTimer,        \* runUser: due time of the stop setTimeout
    pending,          \* order POSTs in flight, by the tick's clock reading
    loginCalls,       \* POSTs received by LOGIN_URL
    orderCalls,       \* instants at which ORDER_URL received a POST
    logs,             \* const logs = []
    files,            \* contents written by fs.writeFileSync, in order
    env,              \* app.js: process.env
    appPc,            \* runApp: "start", "login", "scheduled" (runApp has returned)
    authToken,        \* runApp: let authToken
    orderInterval,    \* runApp: let orderInterval: "undefined", "active", "cleared"
    marketChecker,    \* runApp: the market checker's setInterval is active
    startPolls,       \* market-time GETs in flight from the timer of line 116
    checkPolls,       \* market-time GETs in flight from marketChecker
    pollCount,        \* market-time GETs sent
    orderCounter,     \* runApp: let orderCounter
    ordersInFlight,   \* order POSTs in flight, by order number
    appLoginCalls,    \* POSTs received by LOGIN_URL from app.js
    unhandledRejections  \* promises rejected with no handler

muVars == <<users, runPc, pc, token, startTime, stopTime, isTradingActive,
            waitTimer,
            tradingInterval, stopTimer, pending, loginCalls, orderCalls>>

appVars == <<env, appPc, authToken, orderInterval, marketChecker, startPolls,
             checkPolls, pollCount, orderCounter, ordersInFlight, appLoginCalls,
             unhandledRejections>>

vars == <<program, proc, now, logs, files, muVars, appVars>>

----------------------------------------------------------------------------
(* Bounds                                                                  *)

MaxTime == 3

AppMaxTime == 2000

AppTickMs == 500

MaxPolls == 3

MaxOrders == 2

MaxQty == 2

MaxGap == 1200

None == -1

----------------------------------------------------------------------------
(* app_multiuser_highres.js                                                *)

\* a field of a time string that Number() turns into NaN
NaN == None

\* A time string 'HH.MM.SS.mmm' is held as the list of its fields after
\* split('.').map(Number) (line 28): Number keeps a field's value, not its
\* digit count. dotted(t) is the well-formed string of the time of day t ms
\* after midnight.
dotted(t) ==
    <<t \div 3600000, (t \div 60000) % 60, (t \div 1000) % 60, t % 1000>>

\* the fields of moment().tz('Asia/Tehran'); the clock counts from today's
\* midnight in that zone
current ==
    [hours |-> now \div 3600000, minutes |-> (now \div 60000) % 60,
     seconds |-> (now \div 1000) % 60, milliseconds |-> now % 1000]

\* one unit of moment's set(): a value that is undefined (the string has too
\* few fields) or NaN leaves the unit as it is
setUnit(fields, i, cur) ==
    IF i <= Len(fields) /\ fields[i] # NaN THEN fields[i] ELSE cur

\* parseTime(timeStr).valueOf() (lines 27-31, 105-106): no field is checked; a
\* value above its unit's range carries into the next unit, as Date's setters
\* do; fields after the fourth are dropped by the destructuring
parseTime(fields) ==
    LET h == setUnit(fields, 1, current.hours)
        m == setUnit(fields, 2, current.minutes)
        s == setUnit(fields, 3, current.seconds)
        ms == setUnit(fields, 4, current.milliseconds)
    IN  ((h * 60 + m) * 60 + s) * 1000 + ms

\* Object.entries(users) order
UserOrder == <<"A", "B">>

RequiredFields ==
    {"REQUEST_INTERVAL", "QUANTITY", "PRICE", "ORDER_START_TIME",
     "ORDER_STOP_TIME", "MAX_QUANTITY", "MIN_TOTAL_COST"}

Config(q, p, maxq, mintc, start, stop, interval) ==
    [QUANTITY |-> q, PRICE |-> p, MAX_QUANTITY |-> maxq, MIN_TOTAL_COST |-> mintc,
     ORDER_START_TIME |-> dotted(start), ORDER_STOP_TIME |-> dotted(stop),
     REQUEST_INTERVAL |-> interval]

\* variant: the entry is put at the front of the log
unshift(l, e) == <<e>> \o l

\* logs.push(log) (line 23; app.js line 32)
push(l, e) == Append(l, e)

\* logMessage(color, userKey, msg): the line pushed to logs
logMessage(color, userKey, msg) ==
    [timestamp |-> now, userKey |-> userKey, color |-> color, msg |-> msg]

\* variant: a quantity equal to the maximum is rejected (>= for >)
validateConfigStrict(config) ==
    IF \E field \in RequiredFields : field \notin DOMAIN config
        THEN "Missing field"
    ELSE IF config.QUANTITY >= config.MAX_QUANTITY
        THEN "Quantity exceeds maximum allowed"
    ELSE IF config.QUANTITY * config.PRICE < config.MIN_TOTAL_COST
        THEN "Total cost below minimum required"
    ELSE "ok"

\* validateConfig(config): "ok", or the message of the Error thrown
validateConfig(config) ==
    IF \E field \in RequiredFields : field \notin DOMAIN config
        THEN "Missing field"
    ELSE IF config.QUANTITY > config.MAX_QUANTITY
        THEN "Quantity exceeds maximum allowed"
    ELSE IF config.QUANTITY * config.PRICE < config.MIN_TOTAL_COST
        THEN "Total cost below minimum required"
    ELSE "ok"

\* variant: the window closes one millisecond late (> for >=)
StopReachedLate(t, stop) == t > stop

\* the test of executeTrade (line 124)
StopReached(t, stop) == t >= stop

\* variant: the last branch sleeps 2 ms, as the branch before it does
delayCoarse(remaining) ==
    IF remaining > 1000 THEN 100
    ELSE IF remaining > 100 THEN 10
    ELSE 2

\* the wait loop's sleep (lines 114-116)
delay(remaining) ==
    IF remaining > 1000 THEN 100
    ELSE IF remaining > 100 THEN 10
    ELSE IF remaining > 5 THEN 2
    ELSE 1

\* lines 151-158: the stop timer's due time
stopDue(stop) ==
    LET timeRemaining == stop - now
    IN  now + (IF timeRemaining > 0 THEN timeRemaining ELSE 0)

Sessions == DOMAIN users

\* variant: the catch ends the process, as the catch of app.js does
afterFatalErrorExit == "exit(1)"

\* the catch of runUser (lines 160-163) logs and resolves: the process goes on
afterFatalError == "running"

\* variant: the catch of executeTrade ends the trading
executeTradeActiveStops(u, r) == IF r = "fail" THEN FALSE ELSE isTradingActive[u]

\* executeTrade after its await (lines 129-136) does not assign isTradingActive
executeTradeActive(u, r) == isTradingActive[u]

resolved(u) == pc[u] \in {"stopped", "failed"}

\* run(), lines 180-186: runUser is called for every entry in order; each call
\* runs synchronously up to its first await (lines 97-101) or to its catch
\* (lines 160-162).
RECURSIVE runLogs(_)
runLogs(i) ==
    IF i = 0 THEN logs
    ELSE LET u == UserOrder[i]
             prev == runLogs(i - 1)
             l1 == push(prev, logMessage("cyan", u, <<"Initializing trader">>))
             v == validateConfig(users[u])
         IN  IF u \notin Sessions THEN prev
             ELSE IF v = "ok" THEN l1
             ELSE push(l1, logMessage("red", u, <<"Fatal error", v>>))

run ==
    /\ program = "app_multiuser_highres.js"
    /\ proc = "running"
    /\ runPc = "start"
    /\ runPc' = "awaiting"
    /\ pc' = [u \in Sessions |->
                IF validateConfig(users[u]) = "ok" THEN "login" ELSE "failed"]
    /\ loginCalls' = [u \in Sessions |->
                IF validateConfig(users[u]) = "ok" THEN 1 ELSE 0]
    /\ logs' = runLogs(Len(UserOrder))
    /\ proc' = IF \E u \in Sessions : validateConfig(users[u]) # "ok"
               THEN afterFatalError ELSE proc
    /\ UNCHANGED appVars
    /\ UNCHANGED <<program, now, files, users, startTime, stopTime,
                   token, isTradingActive,
                   waitTimer, tradingInterval, stopTimer, pending, orderCalls>>

\* runUser from the test of the wait loop (line 111) to the next await or to
\* the end of the executor (line 158); logs1 is the log the caller leaves.
waitLoop(u, logs1, start, stop) ==
    LET interval == users[u].REQUEST_INTERVAL
    IN  IF now < start
        THEN /\ pc' = [pc EXCEPT ![u] = "waiting"]
             /\ waitTimer' = [waitTimer EXCEPT ![u] = now + delay(start - now)]
             /\ logs' = logs1
             /\ UNCHANGED <<isTradingActive, tradingInterval, stopTimer,
                            pending, orderCalls>>
        ELSE IF StopReached(now, stop)
        THEN /\ pc' = [pc EXCEPT ![u] = "trading"]
             /\ waitTimer' = [waitTimer EXCEPT ![u] = None]
             /\ isTradingActive' = [isTradingActive EXCEPT ![u] = FALSE]
             /\ tradingInterval' = [tradingInterval EXCEPT ![u] = now + interval]
             /\ stopTimer' = [stopTimer EXCEPT ![u] = stopDue(stop)]
             /\ logs' = logs1
             /\ UNCHANGED <<pending, orderCalls>>
        ELSE /\ pc' = [pc EXCEPT ![u] = "firstOrder"]
             /\ waitTimer' = [waitTimer EXCEPT ![u] = None]
             /\ pending' = [pending EXCEPT ![u] = @ \cup {now}]
             /\ orderCalls' = [orderCalls EXCEPT ![u] = @ \cup {now}]
             /\ logs' = logs1
             /\ UNCHANGED <<isTradingActive, tradingInterval, stopTimer>>

\* what the login endpoint can answer
LoginOutcomes == {"accessToken", "noAccessToken", "noData", "non2xx", "networkError"}

\* getAuthToken (lines 60-70): the value returned, or "throw"
getAuthToken(r) ==
    IF r = "accessToken" THEN "tok"
    ELSE IF r = "noAccessToken" THEN "undefined"
    ELSE "throw"

\* the login POST answers: lines 101-118, or the catch at 160-162
LoginResp(u, r) ==
    /\ proc = "running"
    /\ u \in Sessions
    /\ pc[u] = "login"
    /\ IF getAuthToken(r) = "throw"
       THEN /\ pc' = [pc EXCEPT ![u] = "failed"]
            /\ logs' = push(logs, logMessage("red", u,
                                  <<"Fatal error", "Authentication failed">>))
            /\ proc' = afterFatalError
            /\ UNCHANGED <<token, startTime, stopTime, isTradingActive, waitTimer,
                           tradingInterval, stopTimer, pending, orderCalls>>
       ELSE LET start == parseTime(users[u].ORDER_START_TIME)
                stop == parseTime(users[u].ORDER_STOP_TIME)
            IN  /\ token' = [token EXCEPT ![u] = getAuthToken(r)]
                /\ startTime' = [startTime EXCEPT ![u] = start]
                /\ stopTime' = [stopTime EXCEPT ![u] = stop]
                /\ waitLoop(u,
                     push(push(logs,
                         logMessage("green", u, <<"Authentication successful">>)),
                         logMessage("cyan", u, <<"Waiting until", start>>)),
                     start, stop)
                /\ UNCHANGED proc
    /\ UNCHANGED appVars
    /\ UNCHANGED <<program, now, files, users, runPc, loginCalls>>

\* the wait loop's setTimeout fires (line 117), back to the test at line 111
WaitWake(u) ==
    /\ proc = "running"
    /\ u \in Sessions
    /\ pc[u] = "waiting"
    /\ now >= waitTimer[u]
    /\ waitLoop(u, logs, startTime[u], stopTime[u])
    /\ UNCHANGED appVars
    /\ UNCHANGED <<program, proc, now, files, users, startTime, stopTime,
                   runPc, loginCalls, token>>

\* what the order endpoint can answer
OrderOutcomes == {"ok", "fail"}

\* executeTrade after its await (lines 131-135): the line logged
orderLog(u, t, r) ==
    IF r = "ok"
    THEN logMessage("green", u, <<"Order executed at", t>>)
    ELSE logMessage("red", u, <<"Order error">>)

\* the immediate first order answers: lines 131-158
FirstOrderResp(u, r) ==
    /\ proc = "running"
    /\ u \in Sessions
    /\ pc[u] = "firstOrder"
    /\ \E t \in pending[u] :
        /\ pending' = [pending EXCEPT ![u] = @ \ {t}]
        /\ logs' = push(logs, orderLog(u, t, r))
    /\ pc' = [pc EXCEPT ![u] = "trading"]
    /\ tradingInterval' = [tradingInterval EXCEPT
                              ![u] = now + users[u].REQUEST_INTERVAL]
    /\ stopTimer' = [stopTimer EXCEPT ![u] = stopDue(stopTime[u])]
    /\ isTradingActive' = [isTradingActive EXCEPT ![u] = executeTradeActive(u, r)]
    /\ UNCHANGED appVars
    /\ UNCHANGED <<program, proc, now, files, users, startTime, stopTime,
                   runPc, loginCalls, token,
                   waitTimer, orderCalls>>

\* the setInterval callback (lines 143-149) with executeTrade up to its await
IntervalTick(u) ==
    /\ proc = "running"
    /\ u \in Sessions
    /\ tradingInterval[u] # None
    /\ now >= tradingInterval[u]
    /\ IF ~isTradingActive[u]
       THEN /\ tradingInterval' = [tradingInterval EXCEPT ![u] = None]
            /\ UNCHANGED <<isTradingActive, pending, orderCalls>>
       ELSE /\ tradingInterval' = [tradingInterval EXCEPT
                                     ![u] = now + users[u].REQUEST_INTERVAL]
            /\ IF StopReached(now, stopTime[u])
               THEN /\ isTradingActive' = [isTradingActive EXCEPT ![u] = FALSE]
                    /\ UNCHANGED <<pending, orderCalls>>
               ELSE /\ pending' = [pending EXCEPT ![u] = @ \cup {now}]
                    /\ orderCalls' = [orderCalls EXCEPT ![u] = @ \cup {now}]
                    /\ UNCHANGED isTradingActive
    /\ UNCHANGED appVars
    /\ UNCHANGED <<program, proc, now, files, users, startTime, stopTime,
                   runPc, loginCalls, token,
                   pc, waitTimer, stopTimer, logs>>

\* an order sent by an interval tick answers: lines 131-135
OrderResp(u, r) ==
    /\ proc = "running"
    /\ u \in Sessions
    /\ pc[u] # "firstOrder"
    /\ \E t \in pending[u] :
        /\ pending' = [pending EXCEPT ![u] = @ \ {t}]
        /\ logs' = push(logs, orderLog(u, t, r))
    /\ isTradingActive' = [isTradingActive EXCEPT ![u] = executeTradeActive(u, r)]
    /\ UNCHANGED appVars
    /\ UNCHANGED <<program, proc, now, files, users, startTime, stopTime,
                   runPc, loginCalls, token,
                   pc, waitTimer, tradingInterval, stopTimer, orderCalls>>

\* variant: the stop callback is armed with setInterval and fires again
stopTimerRepeats(u) == now + 1

\* setTimeout (line 153) fires once: the timer is gone after its callback
stopTimerFired(u) == None

\* the stop timer's callback (lines 153-158)
StopTimerFire(u) ==
    /\ proc = "running"
    /\ u \in Sessions
    /\ stopTimer[u] # None
    /\ now >= stopTimer[u]
    /\ isTradingActive' = [isTradingActive EXCEPT ![u] = FALSE]
    /\ tradingInterval' = [tradingInterval EXCEPT ![u] = None]
    /\ stopTimer' = [stopTimer EXCEPT ![u] = stopTimerFired(u)]
    /\ logs' = push(logs, logMessage("cyan", u, <<"Trading period ended">>))
    /\ pc' = [pc EXCEPT ![u] = "stopped"]
    /\ UNCHANGED appVars
    /\ UNCHANGED <<program, proc, now, files, users, startTime, stopTime,
                   runPc, loginCalls, token,
                   waitTimer, pending, orderCalls>>

\* variant: Promise.race, which settles with the first session that resolves
PromiseRace == \E u \in Sessions : resolved(u)

\* Promise.all (lines 181-186) is fulfilled once every runUser promise is
PromiseAll == \A u \in Sessions : resolved(u)

\* run() after Promise.all: the finally block (lines 190-197)
runFinally ==
    /\ proc = "running"
    /\ runPc = "awaiting"
    /\ PromiseAll
    /\ runPc' = "done"
    /\ files' = Append(files, logs)
    /\ UNCHANGED appVars
    /\ UNCHANGED <<program, proc, now, logs, users, startTime, stopTime,
                   pc, token, isTradingActive,
                   waitTimer, tradingInterval, stopTimer, pending, loginCalls,
                   orderCalls>>

\* node exits when run() is over and nothing is left on the event loop
EventLoopEmpty ==
    /\ program = "app_multiuser_highres.js"
    /\ proc = "running"
    /\ runPc = "done"
    /\ \A u \in Sessions : pending[u] = {}
    /\ proc' = "exited"
    /\ UNCHANGED appVars
    /\ UNCHANGED <<program, now, logs, files, muVars>>

----------------------------------------------------------------------------
(* app.js                                                                  *)

EnvRequired ==
    {"REQUEST_INTERVAL", "QUANTITY", "PRICE", "MAX_QUANTITY", "MIN_TOTAL_PRICE",
     "ORDER_START_TIME", "ORDER_STOP_TIME"}

Env(q, p, maxq, mintp, start, stop) ==
    [QUANTITY |-> q, PRICE |-> p, MAX_QUANTITY |-> maxq, MIN_TOTAL_PRICE |-> mintp,
     ORDER_START_TIME |-> start, ORDER_STOP_TIME |-> stop, REQUEST_INTERVAL |-> 1]

\* log(level, message): the line pushed to logs, without its local-time stamp
log(level, message) == [level |-> level, message |-> message]

\* validateEnv: "ok", or the message of the Error thrown
validateEnv(e) ==
    IF \E varName \in EnvRequired : varName \notin DOMAIN e
        THEN "Missing variable in .env"
    ELSE IF e.QUANTITY * e.PRICE < e.MIN_TOTAL_PRICE
        THEN "Total price below minimum"
    ELSE IF e.QUANTITY > e.MAX_QUANTITY
        THEN "Quantity exceeds maximum"
    ELSE "ok"

\* parseTimeNumber: the digits of HHMMSSmmm
parseTimeNumber(timeStr) ==
    [hours   |-> timeStr \div 10000000,
     minutes |-> (timeStr \div 100000) % 100,
     seconds |-> (timeStr \div 1000) % 100,
     ms      |-> timeStr % 1000]

\* getCurrentMarketTime on a successful fetch: the local time of day of the
\* server's timestamp (here milliseconds since local midnight)
getCurrentMarketTime(timestamp) ==
    [hours   |-> (timestamp \div 3600000) % 24,
     minutes |-> (timestamp \div 60000) % 60,
     seconds |-> (timestamp \div 1000) % 60,
     ms      |-> timestamp % 1000]

\* currentTotal, startTotal, stopTotal (lines 133-135)
total(t) == t.hours * 3600 + t.minutes * 60 + t.seconds

\* variant: process.exit(0) is missing after saveLogs
exitReturns(code) == IF code = 0 THEN "running" ELSE "exit(1)"

\* process.exit(code): how the process has ended
exit(code) == IF code = 0 THEN "exit(0)" ELSE "exit(1)"

\* saveLogs (lines 181-188) on the log l: the files, and the log afterwards
saveLogsFiles(l) == Append(files, l)

saveLogsLogs(l) == push(l, log("info", <<"Logs saved to">>))

\* runApp up to its first await (lines 93-102)
runApp ==
    /\ program = "app.js"
    /\ proc = "running"
    /\ appPc = "start"
    /\ IF validateEnv(env) = "ok"
       THEN /\ logs' = push(logs, log("info", <<"Application started">>))
            /\ appLoginCalls' = appLoginCalls + 1
            /\ appPc' = "login"
            /\ UNCHANGED <<proc, unhandledRejections>>
       ELSE \* the Error rejects the promise of runApp(), which nothing handles
            /\ unhandledRejections' = unhandledRejections + 1
            /\ proc' = "ended"
            /\ UNCHANGED <<logs, appLoginCalls, appPc>>
    /\ UNCHANGED <<program, now, files, muVars, env, authToken, orderInterval,
                   marketChecker, startPolls, checkPolls, pollCount, orderCounter,
                   ordersInFlight>>

\* the login POST answers: lines 103-196 (both timers armed, the SIGINT
\* handler registered), or the catch at lines 105-108
AppLoginResp(r) ==
    /\ program = "app.js"
    /\ proc = "running"
    /\ appPc = "login"
    /\ IF getAuthToken(r) = "throw"
       THEN /\ logs' = push(logs, log("error", <<"Login failed">>))
            /\ proc' = exit(1)
            /\ UNCHANGED <<authToken, appPc, marketChecker>>
       ELSE /\ authToken' = getAuthToken(r)
            /\ logs' = push(logs, log("info", <<"Authentication successful">>))
            /\ appPc' = "scheduled"
            /\ marketChecker' = TRUE
            /\ UNCHANGED proc
    /\ UNCHANGED <<program, now, files, muVars, env, orderInterval, startPolls,
                   checkPolls, pollCount, orderCounter, ordersInFlight,
                   appLoginCalls, unhandledRejections>>

\* the timer of line 116 fires: the GET of getCurrentMarketTime is sent
StartLoggerFire ==
    /\ program = "app.js"
    /\ proc = "running"
    /\ appPc = "scheduled"
    /\ pollCount < MaxPolls
    /\ pollCount' = pollCount + 1
    /\ startPolls' = startPolls (+) SetToBag({now})
    /\ UNCHANGED <<program, proc, now, logs, files, muVars, env, appPc, authToken,
                   orderInterval, marketChecker, checkPolls, orderCounter,
                   ordersInFlight, appLoginCalls, unhandledRejections>>

\* what the market-time endpoint can answer
PollOutcomes == {"ok", "fail"}

\* getCurrentMarketTime's catch (lines 85-88): the log after a fetch
fetchLogs(r) ==
    IF r = "fail"
    THEN push(logs, log("error", <<"Market time check failed">>))
    ELSE logs

\* variant: the callbacks go on with a failed fetch as with a successful one
skipsNoCycle(r) == FALSE

\* 'if (!current) return;' (lines 118 and 131): null is returned on failure
skipsCycle(r) == r = "fail"

\* its GET answers with the timestamp: lines 117-125
StartLoggerResp(timestamp, r) ==
    /\ program = "app.js"
    /\ proc = "running"
    /\ BagIn(timestamp, startPolls)
    /\ startPolls' = startPolls (-) SetToBag({timestamp})
    /\ logs' =
         IF skipsCycle(r)
         THEN fetchLogs(r)
         ELSE IF total(getCurrentMarketTime(timestamp))
                    < total(parseTimeNumber(env.ORDER_START_TIME))
         THEN push(fetchLogs(r),
                   log("info", <<"The start time has not been reached yet">>))
         ELSE fetchLogs(r)
    /\ UNCHANGED <<program, proc, now, files, muVars, env, appPc, authToken,
                   orderInterval, marketChecker, checkPolls, pollCount,
                   orderCounter, ordersInFlight, appLoginCalls,
                   unhandledRejections>>

\* marketChecker fires (line 129): the GET of getCurrentMarketTime is sent
MarketCheckerFire ==
    /\ program = "app.js"
    /\ proc = "running"
    /\ marketChecker
    /\ pollCount < MaxPolls
    /\ pollCount' = pollCount + 1
    /\ checkPolls' = checkPolls (+) SetToBag({now})
    /\ UNCHANGED <<program, proc, now, logs, files, muVars, env, appPc, authToken,
                   orderInterval, marketChecker, startPolls, orderCounter,
                   ordersInFlight, appLoginCalls, unhandledRejections>>

\* variant: the start test does not look at orderInterval
notStartedAlways(oi) == TRUE

\* '!orderInterval' (line 138): a Timeout object, also a cleared one, is truthy
notStarted(oi) == oi = "undefined"

\* its GET answers with the timestamp: lines 130-149
MarketCheckerResp(timestamp, r) ==
    LET currentTotal == total(getCurrentMarketTime(timestamp))
        startTotal == total(parseTimeNumber(env.ORDER_START_TIME))
        stopTotal == total(parseTimeNumber(env.ORDER_STOP_TIME))
        starts == notStarted(orderInterval) /\ currentTotal >= startTotal
        orderInterval1 == IF starts THEN "active" ELSE orderInterval
        logs1 == IF starts
                 THEN push(fetchLogs(r), log("info", <<"Starting order sequence">>))
                 ELSE fetchLogs(r)
        stops == orderInterval1 # "undefined" /\ currentTotal >= stopTotal
        logs2 == push(logs1, log("info", <<"Order sequence stopped by STOP time">>))
    IN  /\ program = "app.js"
        /\ proc = "running"
        /\ BagIn(timestamp, checkPolls)
        /\ checkPolls' = checkPolls (-) SetToBag({timestamp})
        /\ IF skipsCycle(r)
           THEN /\ logs' = fetchLogs(r)
                /\ UNCHANGED <<orderInterval, files, proc>>
           ELSE IF stops
           THEN /\ orderInterval' = "cleared"
                /\ files' = saveLogsFiles(logs2)
                /\ logs' = saveLogsLogs(logs2)
                /\ proc' = exit(0)
           ELSE /\ orderInterval' = orderInterval1
                /\ logs' = logs1
                /\ UNCHANGED <<files, proc>>
        /\ UNCHANGED <<program, now, muVars, env, appPc, authToken, marketChecker,
                       startPolls, pollCount, orderCounter, ordersInFlight,
                       appLoginCalls, unhandledRejections>>

\* orderInterval fires: sendOrder up to its await (lines 155-171)
sendOrder ==
    /\ program = "app.js"
    /\ proc = "running"
    /\ orderInterval = "active"
    /\ orderCounter < MaxOrders
    /\ orderCounter' = orderCounter + 1
    /\ ordersInFlight' = ordersInFlight \cup {orderCounter + 1}
    /\ UNCHANGED <<program, proc, now, logs, files, muVars, env, appPc, authToken,
                   orderInterval, marketChecker, startPolls, checkPolls, pollCount,
                   appLoginCalls, unhandledRejections>>

\* what node does with a rejection nothing handles: it ends the process
\* (node 15 and later) or warns and goes on (earlier versions)
UnhandledRejectionModes == {"ended", "running"}

\* the order POST answers: lines 173-174, or the catch at lines 175-177, whose
\* template reads orderNumber, a const of the try block that is out of scope
\* there: the ReferenceError rejects sendOrder's promise before log is called
sendOrderResp(orderNumber, r) ==
    /\ program = "app.js"
    /\ proc = "running"
    /\ orderNumber \in ordersInFlight
    /\ ordersInFlight' = ordersInFlight \ {orderNumber}
    /\ IF r = "ok"
       THEN /\ logs' = push(push(logs,
                          log("info", <<"Order sent", orderNumber>>)),
                          log("info", <<"Broker response for Order", orderNumber>>))
            /\ UNCHANGED <<proc, unhandledRejections>>
       ELSE /\ unhandledRejections' = unhandledRejections + 1
            /\ proc' \in UnhandledRejectionModes
            /\ UNCHANGED logs
    /\ UNCHANGED <<program, now, files, muVars, env, appPc, authToken,
                   orderInterval, marketChecker, startPolls, checkPolls, pollCount,
                   orderCounter, appLoginCalls>>

\* the SIGINT handler (lines 190-196)
SigintHandler ==
    LET logs1 == push(logs, log("info", <<"Process interrupted">>))
    IN  /\ program = "app.js"
        /\ proc = "running"
        /\ appPc = "scheduled"
        /\ marketChecker' = FALSE
        /\ orderInterval' = IF orderInterval = "undefined"
                            THEN orderInterval ELSE "cleared"
        /\ files' = saveLogsFiles(logs1)
        /\ logs' = saveLogsLogs(logs1)
        /\ proc' = exit(0)
        /\ UNCHANGED <<program, now, muVars, env, appPc, authToken, startPolls,
                       checkPolls, pollCount, orderCounter, ordersInFlight,
                       appLoginCalls, unhandledRejections>>

----------------------------------------------------------------------------
(* Both programs                                                           *)

\* SIGINT with no handler registered (app_multiuser_highres.js never registers
\* one, app.js does so at line 190, after the login has answered): node's
\* default disposition ends the process at once
SigintDefault ==
    /\ proc = "running"
    /\ program = "app.js" => appPc # "scheduled"
    /\ proc' = "sigint"
    /\ UNCHANGED <<program, now, logs, files, muVars, appVars>>

\* the clock advances (the local clock of app_multiuser_highres.js, the market
\* time server's clock of app.js); timers may fire late
Tick ==
    /\ proc = "running"
    /\ IF program = "app.js"
       THEN now < AppMaxTime /\ now' = now + AppTickMs
       ELSE now < MaxTime /\ now' = now + 1
    /\ UNCHANGED <<program, proc, logs, files, muVars, appVars>>

\* The clock with exact timers and order calls that answer without delay: it
\* advances only when no order is in flight and no timer is due, and never
\* past the next due time; it stops once every session's window is over.
windowEnd(u) ==
    LET start == parseTime(users[u].ORDER_START_TIME)
        stop == parseTime(users[u].ORDER_STOP_TIME)
    IN  IF stop > start THEN stop ELSE start

Min(S) == CHOOSE x \in S : \A y \in S : x <= y

TickExact ==
    LET due == {waitTimer[u] : u \in {v \in Sessions : waitTimer[v] # None}}
               \cup {tradingInterval[u] :
                        u \in {v \in Sessions : tradingInterval[v] # None}}
               \cup {stopTimer[u] : u \in {v \in Sessions : stopTimer[v] # None}}
        loginPending == \E u \in Sessions : pc[u] = "login"
    IN  /\ proc = "running"
        /\ runPc # "start"
        /\ \A u \in Sessions : pending[u] = {}
        /\ \A d \in due : d > now
        /\ loginPending \/ due # {}
        /\ \E u \in Sessions : now < windowEnd(u)
        /\ now' = IF loginPending THEN now + 1 ELSE Min(due)
        /\ UNCHANGED <<program, proc, logs, files, muVars, appVars>>

----------------------------------------------------------------------------
(* Inputs                                                                  *)

\* users.json files: one account, the window and the cadence vary
TimingFiles ==
    { [u \in {"A"} |-> Config(1, 1, 1, 1, s, e, i)] :
        s \in 0..2, e \in 0..3, i \in 1..2 }

\* one account, the quantities vary
NumericFiles ==
    { [u \in {"A"} |-> Config(q, p, maxq, mintc, 0, 1, 1)] :
        q \in 0..MaxQty, p \in 0..MaxQty, maxq \in 0..MaxQty,
        mintc \in 0..(MaxQty * MaxQty) }

\* one account, a required field is missing
MissingFiles ==
    { [u \in {"A"} |-> [f \in RequiredFields \ {"MIN_TOTAL_COST"} |-> 1]] }

\* two accounts; A's configuration is rejected or accepted
TwoUserFiles ==
    { [u \in {"A", "B"} |-> IF u = "A" THEN a ELSE Config(1, 1, 1, 1, 1, 2, 1)] :
        a \in {Config(2, 1, 1, 1, 0, 1, 1), Config(1, 1, 1, 1, 0, 1, 1)} }

\* accounts for the runs with exact timers
ExactConfigs ==
    { Config(1, 1, 1, 1, 200, 700, 100), Config(1, 1, 1, 1, 3, 8, 2),
      Config(1, 1, 1, 1, 2, 8, 3), Config(1, 1, 1, 1, 5, 5, 1),
      Config(1, 1, 1, 1, 6, 3, 1), Config(1, 1, 1, 1, 1, 4, 1) }

ExactFiles ==
    { [u \in {"A"} |-> c] : c \in ExactConfigs }
    \cup { [u \in {"A", "B"} |-> IF u = "A" THEN a ELSE b] :
              a \in {Config(2, 1, 1, 1, 0, 1, 1), Config(1, 1, 1, 1, 1, 4, 2)},
              b \in {Config(1, 1, 1, 1, 3, 8, 2), Config(1, 1, 1, 1, 2, 3, 1)} }

\* one account whose start or stop time string is malformed: 'HH.MM.SS' (three
\* fields), hour 25, a non-numeric hour, millisecond 1000, minute 60
MalformedTimes ==
    { <<(<<0, 0, 0>>), dotted(2)>>,
      <<(<<25, 0, 0, 0>>), dotted(2)>>,
      <<(<<NaN, 0, 0, 1>>), dotted(2)>>,
      <<dotted(1), (<<0, 0, 0, 1000>>)>>,
      <<dotted(0), (<<0, 60, 0, 0>>)>> }

MalformedFiles ==
    { [u \in {"A"} |->
         [Config(1, 1, 1, 1, 0, 0, 1) EXCEPT !.ORDER_START_TIME = t[1],
                                            !.ORDER_STOP_TIME = t[2]]] :
        t \in MalformedTimes }

UsersFiles ==
    TimingFiles \cup NumericFiles \cup MissingFiles \cup TwoUserFiles
    \cup MalformedFiles

\* app.js before runApp()
AppIdle ==
    /\ appPc = "start"
    /\ authToken = "none"
    /\ orderInterval = "undefined"
    /\ marketChecker = FALSE
    /\ startPolls = EmptyBag
    /\ checkPolls = EmptyBag
    /\ pollCount = 0
    /\ orderCounter = 0
    /\ ordersInFlight = {}
    /\ appLoginCalls = 0
    /\ unhandledRejections = 0

InitSessions ==
    /\ program = "app_multiuser_highres.js"
    /\ proc = "running"
    /\ now = 0
    /\ runPc = "start"
    /\ pc = [u \in Sessions |-> "init"]
    /\ token = [u \in Sessions |-> "none"]
    /\ startTime = [u \in Sessions |-> None]
    /\ stopTime = [u \in Sessions |-> None]
    /\ isTradingActive = [u \in Sessions |-> TRUE]
    /\ waitTimer = [u \in Sessions |-> None]
    /\ tradingInterval = [u \in Sessions |-> None]
    /\ stopTimer = [u \in Sessions |-> None]
    /\ pending = [u \in Sessions |-> {}]
    /\ loginCalls = [u \in Sessions |-> 0]
    /\ orderCalls = [u \in Sessions |-> {}]
    /\ logs = <<>>
    /\ files = <<>>
    /\ env = Env(1, 1, 1, 1, 0, 0)
    /\ AppIdle

InitMU == users \in UsersFiles /\ InitSessions

InitExact == users \in ExactFiles /\ InitSessions

\* process.env
Envs ==
    { Env(1, 1, 1, 1, s, e) : s \in {1000, 1500}, e \in {1000, 2000} }
    \cup { Env(q, 1, maxq, mintp, 1000, 1000) :
              q \in 1..2, maxq \in 1..2, mintp \in 1..2 }
    \cup { [f \in EnvRequired \ {"MAX_QUANTITY"} |-> 1] }

InitApp ==
    /\ program = "app.js"
    /\ proc = "running"
    /\ now = 0
    /\ env \in Envs
    /\ AppIdle
    /\ users = [u \in {} |-> 0]
    /\ runPc = "start"
    /\ pc = [u \in {} |-> 0]
    /\ token = [u \in {} |-> 0]
    /\ startTime = [u \in {} |-> 0]
    /\ stopTime = [u \in {} |-> 0]
    /\ isTradingActive = [u \in {} |-> 0]
    /\ waitTimer = [u \in {} |-> 0]
    /\ tradingInterval = [u \in {} |-> 0]
    /\ stopTimer = [u \in {} |-> 0]
    /\ pending = [u \in {} |-> 0]
    /\ loginCalls = [u \in {} |-> 0]
    /\ orderCalls = [u \in {} |-> 0]
    /\ logs = <<>>
    /\ files = <<>>

Init == InitMU \/ InitApp

NextMU ==
    \/ run
    \/ \E u \in Sessions, r \in LoginOutcomes : LoginResp(u, r)
    \/ \E u \in Sessions : WaitWake(u)
    \/ \E u \in Sessions, r \in OrderOutcomes : FirstOrderResp(u, r)
    \/ \E u \in Sessions : IntervalTick(u)
    \/ \E u \in Sessions, r \in OrderOutcomes : OrderResp(u, r)
    \/ \E u \in Sessions : StopTimerFire(u)
    \/ runFinally
    \/ EventLoopEmpty
    \/ SigintDefault
    \/ Tick

NextApp ==
    \/ runApp
    \/ \E r \in LoginOutcomes : AppLoginResp(r)
    \/ StartLoggerFire
    \/ \E t \in BagToSet(startPolls), r \in PollOutcomes : StartLoggerResp(t, r)
    \/ MarketCheckerFire
    \/ \E t \in BagToSet(checkPolls), r \in PollOutcomes : MarketCheckerResp(t, r)
    \/ sendOrder
    \/ \E n \in ordersInFlight, r \in OrderOutcomes : sendOrderResp(n, r)
    \/ SigintHandler
    \/ SigintDefault
    \/ Tick

Next == NextMU \/ NextApp

\* either program, any input
Spec == Init /\ [][Next]_vars

\* app_multiuser_highres.js
SpecMU == InitMU /\ [][NextMU]_vars

\* app.js
SpecApp == InitApp /\ [][NextApp]_vars

NextExact ==
    \/ run
    \/ \E u \in Sessions, r \in LoginOutcomes : LoginResp(u, r)
    \/ \E u \in Sessions : WaitWake(u)
    \/ \E u \in Sessions : FirstOrderResp(u, "ok")
    \/ \E u \in Sessions : IntervalTick(u)
    \/ \E u \in Sessions : OrderResp(u, "ok")
    \/ \E u \in Sessions : StopTimerFire(u)
    \/ runFinally
    \/ EventLoopEmpty
    \/ TickExact

\* app_multiuser_highres.js with exact timers and order calls that succeed
\* without delay
SpecExact == InitExact /\ [][NextExact]_vars

UserKeys == {UserOrder[i] : i \in 1..Len(UserOrder)}

\* SpecExact with an event loop that runs every job that is ready
ExactFair ==
    /\ WF_vars(run)
    /\ WF_vars(runFinally)
    /\ WF_vars(EventLoopEmpty)
    /\ WF_vars(TickExact)
    /\ \A u \in UserKeys :
          /\ WF_vars(\E r \in LoginOutcomes : LoginResp(u, r))
          /\ WF_vars(WaitWake(u))
          /\ WF_vars(FirstOrderResp(u, "ok"))
          /\ WF_vars(IntervalTick(u))
          /\ WF_vars(OrderResp(u, "ok"))
          /\ WF_vars(StopTimerFire(u))

SpecExactLive == SpecExact /\ ExactFair

\* app_multiuser_highres.js left to run: nothing interrupts it
NextLive ==
    \/ run
    \/ \E u \in Sessions, r \in LoginOutcomes : LoginResp(u, r)
    \/ \E u \in Sessions : WaitWake(u)
    \/ \E u \in Sessions, r \in OrderOutcomes : FirstOrderResp(u, r)
    \/ \E u \in Sessions : IntervalTick(u)
    \/ \E u \in Sessions, r \in OrderOutcomes : OrderResp(u, r)
    \/ \E u \in Sessions : StopTimerFire(u)
    \/ runFinally
    \/ EventLoopEmpty
    \/ Tick

\* the event loop runs every job that is ready: time passes, a timer that is
\* due fires, a settled promise's continuation runs
TimersFire ==
    /\ WF_vars(run)
    /\ WF_vars(runFinally)
    /\ WF_vars(EventLoopEmpty)
    /\ WF_vars(Tick)
    /\ \A u \in UserKeys :
          /\ WF_vars(WaitWake(u))
          /\ WF_vars(IntervalTick(u))
          /\ WF_vars(StopTimerFire(u))

\* the login call returns
LoginReturns ==
    \A u \in UserKeys : WF_vars(\E r \in LoginOutcomes : LoginResp(u, r))

\* every order call returns
OrdersReturn ==
    \A u \in UserKeys :
        /\ WF_vars(\E r \in OrderOutcomes : FirstOrderResp(u, r))
        /\ WF_vars(\E r \in OrderOutcomes : OrderResp(u, r))

LiveFiles == TimingFiles \cup TwoUserFiles

InitLive == users \in LiveFiles /\ InitSessions

\* every network call eventually returns
SpecLive ==
    InitLive /\ [][NextLive]_vars /\ TimersFire /\ LoginReturns /\ OrdersReturn

\* the login call returns, an order call may never do
SpecTimers == InitLive /\ [][NextLive]_vars /\ TimersFire /\ LoginReturns

----------------------------------------------------------------------------
(* Claims                                                                  *)

\* the instant the start specification of u was resolved to by runUser or,
\* before that, the instant it resolves to now
startInstant(u) ==
    IF startTime[u] # None THEN startTime[u]
    ELSE parseTime(users[u].ORDER_START_TIME)

stopInstant(u) ==
    IF stopTime[u] # None THEN stopTime[u]
    ELSE parseTime(users[u].ORDER_STOP_TIME)

requestInterval(u) == users[u].REQUEST_INTERVAL

\* this step ran executeTrade for u for the first time (the immediate attempt)
firstAttempt(u) ==
    pc[u] \in {"login", "waiting"} /\ pc'[u] \in {"firstOrder", "trading"}

\* this step ran the setInterval callback of u
ticked(u) ==
    /\ pc[u] = "trading" /\ pc'[u] = "trading"
    /\ tradingInterval[u] # None
    /\ tradingInterval'[u] # tradingInterval[u]

\* this step started an order submission of u
orderStarted(u) == orderCalls'[u] # orderCalls[u]

\* this step delivered the answer of one order call of u
answered(u) == pending'[u] # pending[u] /\ pending'[u] \subseteq pending[u]

\* C1: in runUser an order submission is started only at an instant t with
\* startInstant <= t < stopInstant; an attempt whose clock reading is
\* stopInstant or later starts none, and one whose reading is
\* stopInstant - 1 starts one.
C1_OrdersOnlyInWindow ==
    [][\A u \in Sessions :
        /\ \A t \in orderCalls'[u] :
              startInstant(u) <= t /\ t < stopInstant(u)
        /\ orderStarted(u) => orderCalls'[u] = orderCalls[u] \cup {now}
        /\ (firstAttempt(u) \/ ticked(u)) /\ now >= stopInstant(u)
              => ~orderStarted(u)
        /\ (firstAttempt(u) \/ ticked(u)) /\ now = stopInstant(u) - 1
              => orderStarted(u)
      ]_vars

\* C1 witness: an order was started by a tick at stopInstant - 1, and the
\* attempt at exactly stopInstant has closed the window without an order.
C1_Witness ==
    \E u \in Sessions :
        /\ pc[u] = "trading"
        /\ startInstant(u) < stopInstant(u) - 1
        /\ (stopInstant(u) - 1) \in orderCalls[u]
        /\ now = stopInstant(u)
        /\ ~isTradingActive[u]
        /\ stopInstant(u) \notin orderCalls[u]

\* the order events of u in the log
orderEvents(u) ==
    {i \in 1..Len(logs) :
        /\ logs[i].userKey = u
        /\ logs[i].msg[1] \in {"Order executed at", "Order error"}}

\* C2: in runUser a failed order call logs exactly one error event, leaves the
\* session trading, and every later tick before stopInstant starts its own
\* order, whatever the earlier outcomes and whatever is still in flight.
C2_FailureDoesNotStopSchedule ==
    [][\A u \in Sessions :
        /\ (OrderResp(u, "fail") \/ FirstOrderResp(u, "fail"))
              => /\ logs' = Append(logs, logMessage("red", u, <<"Order error">>))
                 /\ isTradingActive'[u] = isTradingActive[u]
                 /\ pc'[u] \in {pc[u], "trading"}
        /\ answered(u) => Len(logs') = Len(logs) + 1
        /\ Cardinality(orderEvents(u)')
              = Cardinality(orderCalls'[u]) - Cardinality(pending'[u])
        /\ ticked(u) /\ now < stopInstant(u)
              => /\ orderStarted(u)
                 /\ pending'[u] = pending[u] \cup {now}
      ]_vars

\* C2 witness: an order error is in the log, the session is still trading, and
\* two orders started afterwards are in flight together.
C2_Witness ==
    \E u \in Sessions :
        /\ pc[u] = "trading"
        /\ isTradingActive[u]
        /\ Cardinality(pending[u]) >= 2
        /\ \E i \in orderEvents(u) :
              /\ logs[i].color = "red"
              /\ \A t \in pending[u] : logs[i].timestamp < t

\* C3: in app.js a failed order POST is caught by sendOrder, logged as one
\* error event for that order, does not end the process nor escape as an
\* unhandled rejection, and the order timer keeps firing.
C3_OrderFailureLogged ==
    [][\A n \in ordersInFlight :
        sendOrderResp(n, "fail")
            => /\ logs' = Append(logs, log("error", <<"Order failed", n>>))
               /\ proc' = "running"
               /\ unhandledRejections' = unhandledRejections
               /\ orderInterval' = "active"
      ]_vars

\* the invariant of section 3 on integer quantities
consistent(q, p, maxq, mintc) == q * p >= mintc /\ q <= maxq

\* C4: with all required fields present, the validator accepts if and only if
\* quantity * price >= minTotalCost and quantity <= maxQuantity, and a
\* rejected session has failed with no login call and no order call.
C4_ValidatorGatesNetwork ==
    /\ \A u \in Sessions :
          (runPc # "start" /\ RequiredFields \subseteq DOMAIN users[u]) =>
            LET c == users[u]
                ok == consistent(c.QUANTITY, c.PRICE, c.MAX_QUANTITY,
                                 c.MIN_TOTAL_COST)
            IN  /\ ok <=> loginCalls[u] = 1
                /\ ok <=> validateConfig(c) = "ok"
                /\ ~ok => /\ pc[u] = "failed"
                          /\ loginCalls[u] = 0
                          /\ orderCalls[u] = {}
                          /\ \E i \in 1..Len(logs) :
                                /\ logs[i].userKey = u
                                /\ logs[i].msg[1] = "Fatal error"
    /\ (/\ program = "app.js"
        /\ appPc # "start" \/ proc = "ended"
        /\ EnvRequired \subseteq DOMAIN env) =>
            LET ok == consistent(env.QUANTITY, env.PRICE, env.MAX_QUANTITY,
                                 env.MIN_TOTAL_PRICE)
            IN  /\ ok <=> appLoginCalls = 1
                /\ ok <=> validateEnv(env) = "ok"
                /\ ~ok => /\ proc = "ended"
                          /\ appLoginCalls = 0
                          /\ orderCounter = 0
                          /\ pollCount = 0

\* C4 witness: a session rejected only for its total cost has failed, and no
\* call has reached the network.
C4_Witness ==
    \E u \in Sessions :
        /\ RequiredFields \subseteq DOMAIN users[u]
        /\ users[u].QUANTITY <= users[u].MAX_QUANTITY
        /\ users[u].QUANTITY * users[u].PRICE < users[u].MIN_TOTAL_COST
        /\ pc[u] = "failed"
        /\ loginCalls[u] = 0
        /\ proc = "exited"

\* C5: no order submission is started unless the login call returned a usable
\* bearer token; a login that fails, or whose body lacks data.accessToken,
\* fails the session with no second login and no order.
C5_NoOrderWithoutToken ==
    /\ \A u \in Sessions :
          /\ orderCalls[u] # {} => token[u] = "tok"
          /\ loginCalls[u] <= 1
    /\ orderCounter > 0 => authToken = "tok"
    /\ appLoginCalls <= 1

\* the process was interrupted: killed by the default disposition, or ended by
\* the handler of app.js
interrupted ==
    \/ proc = "sigint"
    \/ /\ program = "app.js"
       /\ \E i \in 1..Len(logs) : logs[i].message = <<"Process interrupted">>

\* C7: after an interrupt at any point of a run, the timers are cancelled, no
\* order is started, and the log has been written before the process exits.
C7_InterruptFlushesLog ==
    (interrupted /\ (runPc # "start" \/ appPc # "start")) =>
        /\ Len(files) >= 1
        /\ ~marketChecker
        /\ orderInterval # "active"

\* C8: in a single run the log file is written at most once, on every
\* interleaving of the exit paths.
C8_AtMostOneWrite == Len(files) <= 1

\* C8 witness: the stop time was observed by one poll and the file written
\* while another poll that also observes it is still in flight.
C8_Witness ==
    /\ program = "app.js"
    /\ proc = "exit(0)"
    /\ ~interrupted
    /\ Len(files) = 1
    /\ \E t \in BagToSet(checkPolls) :
          total(getCurrentMarketTime(t)) >= total(parseTimeNumber(env.ORDER_STOP_TIME))

\* the run has ended without an interrupt: stop time, validation failure or
\* login failure
endedWithoutInterrupt ==
    /\ ~interrupted
    /\ \/ proc \in {"exit(0)", "exit(1)", "exited"}
       \/ proc = "ended" /\ appPc = "start"

\* C9: every end of a run without an interrupt has written the log recorded
\* so far to the log file.
C9_EveryExitFlushesLog ==
    (endedWithoutInterrupt /\ logs # <<>>) => Len(files) >= 1

\* the instants startInstant + k * requestInterval before stopInstant
Expected(u) ==
    {t \in startInstant(u)..(stopInstant(u) - 1) :
        (t - startInstant(u)) % requestInterval(u) = 0}

CeilDiv(a, b) == (a + b - 1) \div b

\* the session logged 'Waiting until' before its start instant
beganWaitingBefore(u) ==
    \E i \in 1..Len(logs) :
        /\ logs[i].userKey = u
        /\ logs[i].msg[1] = "Waiting until"
        /\ logs[i].timestamp < startInstant(u)

\* the submissions of u so far are those of its own cadence
onSchedule(u) ==
    /\ orderCalls[u] \subseteq Expected(u)
    /\ \A t \in Expected(u) : t < now => t \in orderCalls[u]
    /\ pc[u] = "stopped" =>
          /\ orderCalls[u] = Expected(u)
          /\ stopInstant(u) > startInstant(u) =>
                Cardinality(orderCalls[u])
                   = CeilDiv(stopInstant(u) - startInstant(u), requestInterval(u))

\* the completion event of u was logged at the instant t
stoppedAt(u, t) ==
    \E i \in 1..Len(logs) :
        /\ logs[i].userKey = u
        /\ logs[i].msg = <<"Trading period ended">>
        /\ logs[i].timestamp = t

\* C6: when one account's session fails at validation or login, every other
\* session still runs, trades on its own cadence from its own start instant and
\* stops at its own stop instant, as it does when it is the only account.
C6_FailureIsolation ==
    \A a \in Sessions : \A b \in Sessions \ {a} :
        pc[a] = "failed" =>
            /\ proc = "running" \/ resolved(b)
            /\ pc[b] = "login" => ENABLED LoginResp(b, "accessToken")
            /\ beganWaitingBefore(b) =>
                  /\ onSchedule(b)
                  /\ pc[b] = "stopped" => stoppedAt(b, windowEnd(b))

\* C6 witness: A has failed, B has traded its whole window and stopped.
C6_Witness ==
    /\ Sessions = {"A", "B"}
    /\ pc["A"] = "failed"
    /\ pc["B"] = "stopped"
    /\ beganWaitingBefore("B")
    /\ Cardinality(orderCalls["B"]) = 3
    /\ proc = "exited"

\* C10: a session that begins waiting before startInstant, with exact timers
\* and order calls that succeed without delay, submits exactly at
\* startInstant + k * requestInterval < stopInstant, the first at startInstant:
\* ceil((stopInstant - startInstant) / requestInterval) submissions.
C10_ExactCadence ==
    \A u \in Sessions : beganWaitingBefore(u) => onSchedule(u)

\* C10 witness: start 200, stop 700, interval 100: five submissions, no sixth.
C10_Witness ==
    /\ Sessions = {"A"}
    /\ startInstant("A") = 200 /\ stopInstant("A") = 700
    /\ requestInterval("A") = 100
    /\ beganWaitingBefore("A")
    /\ pc["A"] = "stopped"
    /\ orderCalls["A"] = {200, 300, 400, 500, 600}

\* 'HH.MM.SS.mmm' with hour 0-23, minute and second 0-59, millisecond 0-999
wellFormed(fields) ==
    /\ Len(fields) = 4
    /\ fields[1] \in 0..23
    /\ fields[2] \in 0..59
    /\ fields[3] \in 0..59
    /\ fields[4] \in 0..999

\* C11: a session whose start or stop time string is malformed fails with an
\* invalid-time-format error before any network call: no login call, no
\* resolved instant, no order.
C11_MalformedTimeFails ==
    \A u \in Sessions :
        (/\ runPc # "start"
         /\ validateConfig(users[u]) = "ok"
         /\ \/ ~wellFormed(users[u].ORDER_START_TIME)
            \/ ~wellFormed(users[u].ORDER_STOP_TIME))
        => /\ pc[u] = "failed"
           /\ loginCalls[u] = 0
           /\ startTime[u] = None /\ stopTime[u] = None
           /\ orderCalls[u] = {}

\* the log l holds a terminal event of u: its completion event or a fatal error
terminalIn(l, u) ==
    \E i \in 1..Len(l) :
        /\ l[i].userKey = u
        /\ l[i].msg[1] \in {"Trading period ended", "Fatal error"}

\* C12: run writes the log file only after every account's session has logged
\* its completion event or its fatal error, and the file holds these events;
\* if every network call returns, the file is eventually written.
C12_WriteAfterAllTerminal ==
    /\ [](Len(files) >= 1 =>
            \A u \in Sessions : resolved(u) /\ terminalIn(files[1], u))
    /\ <>(Len(files) = 1)

\* C12 witness: two accounts, A stopped while B was still trading, and the
\* file was written after B's completion event.
C12_Witness ==
    /\ Sessions = {"A", "B"}
    /\ Len(files) = 1
    /\ \E t1 \in 0..MaxTime, t2 \in 0..MaxTime :
          t1 < t2 /\ stoppedAt("A", t1) /\ stoppedAt("B", t2)

\* the i-th entry of the log is in the log file
persisted(i) ==
    /\ Len(files) >= 1
    /\ i <= Len(files[1])
    /\ files[1][i] = logs[i]

\* C13: when a run has ended, every error event recorded during it is in the
\* log file, and so is the result of every order call, also of one that was
\* still in flight when its session stopped.
C13_ErrorsPersisted ==
    proc = "exited" =>
        \A i \in 1..Len(logs) :
            (logs[i].color = "red" \/ logs[i].msg[1] = "Order executed at")
                => persisted(i)

\* the login of u has returned a token (line 101)
authenticated(u) == u \in Sessions /\ token[u] # "none"

\* the stop timer's callback of u has run
completed(u) == u \in Sessions /\ pc[u] = "stopped"

\* C14: every session that authenticates logs its completion event and signals
\* completion, not before stopInstant, whether or not its first order call
\* has returned or ever returns.
C14_CompletionAtStop ==
    /\ [](\A u \in Sessions : \A t \in 0..MaxTime :
            stoppedAt(u, t) => t >= stopInstant(u))
    /\ \A u \in UserKeys : authenticated(u) ~> completed(u)

\* the number of completion events of u in the log
completions(u) ==
    Cardinality({i \in 1..Len(logs) :
                    /\ logs[i].userKey = u
                    /\ logs[i].msg = <<"Trading period ended">>})

\* the session of u has left the wait loop
reachedTrading(u) == u \in Sessions /\ pc[u] \in {"firstOrder", "trading"}

\* C15: each session that reaches Trading logs exactly one completion event
\* and resolves once; after that event it starts no order, its cadence timer
\* and its stop timer are gone, and no further completion event is logged.
C15_ExactlyOneCompletion ==
    /\ [](\A u \in Sessions :
            /\ completions(u) = (IF pc[u] = "stopped" THEN 1 ELSE 0)
            /\ pc[u] = "stopped" =>
                  /\ tradingInterval[u] = None
                  /\ stopTimer[u] = None
                  /\ ~isTradingActive[u])
    /\ [][\A u \in Sessions :
            pc[u] = "stopped" =>
                /\ pc'[u] = "stopped"
                /\ orderCalls'[u] = orderCalls[u]
                /\ tradingInterval'[u] = None
                /\ completions(u)' = 1]_vars
    /\ \A u \in UserKeys : reachedTrading(u) ~> (completed(u) /\ completions(u) = 1)

\* C15 witness: the completion event is logged, an order of the session is
\* still in flight, and the next tick of the cadence would have been due.
C15_Witness ==
    \E u \in Sessions :
        /\ pc[u] = "stopped"
        /\ completions(u) = 1
        /\ pending[u] # {}
        /\ \E t \in orderCalls[u] : now >= t + 2 * requestInterval(u)

IsPrefix(a, b) == Len(a) <= Len(b) /\ SubSeq(b, 1, Len(a)) = a

\* the entries of the account u in the log l, in the log's order
ofAccount(l, u) == SelectSeq(l, LAMBDA e : e.userKey = u)

\* the entries that this step added to the log, and those of them of u
added == SubSeq(logs', Len(logs) + 1, Len(logs'))

newOf(u) == ofAccount(added, u)

\* the events the session of u emits in this step, told from what the step
\* does to the session
emits(u) ==
    IF pc[u] = "init" /\ pc'[u] = "login"
        THEN {<<"Initializing trader">>}
    ELSE IF pc[u] = "init" /\ pc'[u] = "failed"
        THEN {<<"Initializing trader", "Fatal error">>}
    ELSE IF pc[u] = "login" /\ pc'[u] = "failed"
        THEN {<<"Fatal error">>}
    ELSE IF pc[u] = "login" /\ pc'[u] # "login"
        THEN {<<"Authentication successful", "Waiting until">>}
    ELSE IF pc[u] # "stopped" /\ pc'[u] = "stopped"
        THEN {<<"Trading period ended">>}
    ELSE IF answered(u)
        THEN {<<"Order executed at">>, <<"Order error">>}
    ELSE {<<>>}

\* C16: the in-memory log only grows by appends, and for every account the
\* entries of that account are exactly the events its session emitted, in
\* emission order and stamped with the time of emission, whatever the other
\* sessions do in between.
C16_LogAppendOnly ==
    [][/\ IsPrefix(logs, logs')
       /\ program = "app_multiuser_highres.js" =>
             /\ \A i \in 1..Len(added) :
                   /\ added[i].userKey \in Sessions
                   /\ added[i].timestamp = now
             /\ \A u \in Sessions :
                   /\ ofAccount(logs', u) = ofAccount(logs, u) \o newOf(u)
                   /\ [i \in 1..Len(newOf(u)) |-> newOf(u)[i].msg[1]] \in emits(u)
      ]_vars

\* C16 witness: the log holds entries of A and B interleaved: an order result
\* of A, then one of B, then the completion event of A.
C16_Witness ==
    /\ Sessions = {"A", "B"}
    /\ \E i \in orderEvents("A"), j \in orderEvents("B"), k \in 1..Len(logs) :
          /\ i < j /\ j < k
          /\ logs[k].userKey = "A"
          /\ logs[k].msg = <<"Trading period ended">>

marketTimeError == log("error", <<"Market time check failed">>)

\* the market time of a poll is at or after the start time, the stop time
atStart(t) ==
    total(getCurrentMarketTime(t)) >= total(parseTimeNumber(env.ORDER_START_TIME))

atStop(t) ==
    total(getCurrentMarketTime(t)) >= total(parseTimeNumber(env.ORDER_STOP_TIME))

\* C17: in app.js a poll cycle whose fetch fails logs one error event and
\* changes nothing else: the order timer is neither started nor stopped, the
\* log is not written, the process goes on and polls again; a later cycle
\* whose fetch succeeds takes the start and the stop decision.
C17_FailedPollSkipsCycle ==
    [][/\ \A t \in BagToSet(startPolls) \cup BagToSet(checkPolls) :
             (MarketCheckerResp(t, "fail") \/ StartLoggerResp(t, "fail"))
                => /\ logs' = Append(logs, marketTimeError)
                   /\ orderInterval' = orderInterval
                   /\ marketChecker' = marketChecker
                   /\ orderCounter' = orderCounter
                   /\ files' = files
                   /\ proc' = "running"
       /\ \A t \in BagToSet(checkPolls) :
             MarketCheckerResp(t, "ok")
                => /\ (orderInterval = "undefined" /\ atStart(t))
                         => orderInterval' # "undefined"
                   /\ (orderInterval' # "undefined" /\ atStop(t))
                         => /\ proc' = "exit(0)"
                            /\ Len(files') = Len(files) + 1
      ]_vars

\* C17 witness: a cycle failed and was logged; a later cycle succeeded and
\* started the order sequence.
C17_Witness ==
    /\ program = "app.js"
    /\ proc = "running"
    /\ orderInterval = "active"
    /\ \E i \in 1..Len(logs), j \in 1..Len(logs) :
          /\ i < j
          /\ logs[i] = marketTimeError
          /\ logs[j] = log("info", <<"Starting order sequence">>)

\* the sleep chosen for a gap of 1..MaxGap ms is at least 1 ms and never
\* longer than the gap
delayWithinGap ==
    \A remaining \in 1..MaxGap :
        /\ 1 <= delay(remaining)
        /\ delay(remaining) <= remaining
        /\ remaining > 1000 => delay(remaining) = 100
        /\ remaining \in 101..1000 => delay(remaining) = 10
        /\ remaining \in 6..100 => delay(remaining) = 2
        /\ remaining <= 5 => delay(remaining) = 1

\* C18: with integer milliseconds the wait loop's sleep never exceeds the gap
\* that remains to startInstant; with exact timers a session that waits wakes
\* no later than startInstant, leaves the loop exactly at startInstant, and
\* always leaves it.
C18_NoOvershoot ==
    /\ [](/\ delayWithinGap
          /\ \A u \in Sessions :
                pc[u] = "waiting" =>
                    /\ now <= waitTimer[u]
                    /\ waitTimer[u] <= startInstant(u))
    /\ [][\A u \in Sessions :
            (pc[u] = "waiting" /\ firstAttempt(u)) => now = startInstant(u)]_vars
    /\ \A u \in UserKeys :
          (u \in Sessions /\ pc[u] = "waiting")
              ~> (u \in Sessions /\ pc[u] \in {"firstOrder", "trading", "stopped"})

\* C18 witness: a session that began waiting 200 ms before its start, through
\* the 10, 2 and 1 ms sleeps, sent its first order exactly at its start.
C18_Witness ==
    \E u \in Sessions :
        /\ startInstant(u) = 200
        /\ \E i \in 1..Len(logs) :
              /\ logs[i].userKey = u
              /\ logs[i].msg[1] = "Waiting until"
              /\ logs[i].timestamp = 0
        /\ orderCalls[u] = {200}

\* the order timers created so far: each creation logs one line (lines 139-140)
timersCreated ==
    Cardinality({i \in 1..Len(logs) :
                    logs[i] = log("info", <<"Starting order sequence">>)})

\* C19: in app.js at most one order timer is created in a run: once a poll
\* has started the order sequence, the answer of no later or concurrently
\* pending poll starts another.
C19_AtMostOneOrderTimer ==
    /\ [](program = "app.js" =>
            /\ timersCreated <= 1
            /\ timersCreated = 1 <=> orderInterval # "undefined")
    /\ [][orderInterval # "undefined" =>
            /\ timersCreated' = timersCreated
            /\ orderInterval' \in {orderInterval, "cleared"}]_vars

\* C19 witness: the order timer exists and has fired, and a poll sent at or
\* after the start time and before the stop time is still to be answered.
C19_Witness ==
    /\ program = "app.js"
    /\ proc = "running"
    /\ orderInterval = "active"
    /\ orderCounter >= 1
    /\ \E t \in BagToSet(checkPolls) : atStart(t) /\ ~atStop(t)

\* the window of u is empty: its stop instant is not later than its start
emptyWindow(u) == stopInstant(u) <= startInstant(u)

\* C20: a session whose stopInstant is not later than its startInstant starts
\* no order and still terminates: it waits until startInstant, arms the stop
\* timer with no delay, logs its completion event and resolves.
C20_EmptyWindowTerminates ==
    /\ [](\A u \in Sessions :
            (authenticated(u) /\ emptyWindow(u)) =>
                /\ orderCalls[u] = {}
                /\ pc[u] # "firstOrder"
                /\ pc[u] = "waiting" <=> now < startInstant(u) \/ waitTimer[u] # None
                /\ stopTimer[u] # None => stopTimer[u] <= now
                /\ \A t \in 0..MaxTime :
                      stoppedAt(u, t) => t >= startInstant(u))
    /\ \A u \in UserKeys :
          (authenticated(u) /\ emptyWindow(u)) ~> completed(u)

\* C20 witness: stop before start: the session waited, sent nothing and has
\* logged its completion event at or after its start instant.
C20_Witness ==
    \E u \in Sessions :
        /\ stopInstant(u) < startInstant(u)
        /\ beganWaitingBefore(u)
        /\ pc[u] = "stopped"
        /\ orderCalls[u] = {}
        /\ stoppedAt(u, startInstant(u))

====
